---- MODULE Spec2Model ----
(***************************************************************************)
(* The economy engine of the bot: utils/eco.py (EconomySystem, one SQLite  *)
(* database per instance) and the pay command of cogs/pay.py.              *)
(*                                                                         *)
(* A database is a record [users, transactions, shop]:                     *)
(*   users        : user_id -> row of the users table (the domain is the   *)
(*                  set of user ids that have a row),                      *)
(*   transactions : the rows of the transactions table in insertion order  *)
(*                  (transaction_id is the position),                      *)
(*   shop         : item name -> row of the shop table.                    *)
(* Columns that no code reads (last_active, last_work, the description and *)
(* timestamp of a transaction) are not kept.                               *)
(*                                                                         *)
(* The other cogs have one variable each: mod (cogs/moderation.py), music  *)
(* (cogs/music.py), star (cogs/starboard.py) and prefix (cogs/prefix.py).  *)
(* Their handlers are coroutines: the code between two awaits is one step. *)
(***************************************************************************)
EXTENDS Integers, Sequences, FiniteSets, TLC

VARIABLES db, now, reply, steps, calls, lock, account_status, mod, music,
          star, prefix

vars == <<db, now, reply, steps, calls, lock, account_status,
         mod, music, star, prefix>>

\* The variables of the economy engine as utils/eco.py has them.
ledger == <<db, now, reply, steps, calls, lock>>

\* The variables of the other cogs.
cogs == <<mod, music, star, prefix>>

\* What the moderation commands leave alone.
exceptMod == <<ledger, account_status, music, star, prefix>>

\* What the music commands leave alone.
exceptMusic == <<ledger, account_status, mod, star, prefix>>

\* What the starboard leaves alone.
exceptStar == <<ledger, account_status, mod, music, prefix>>

\* What the prefix commands leave alone.
exceptPrefix == <<ledger, account_status, mod, music, star>>

----------------------------------------------------------------------------
(* Bounds of the model.                                                    *)

\* Operations invoked in one behaviour.
MaxSteps == 3

\* Moderation commands invoked in one behaviour.
MaxCommands == 3

\* Tracks added by play commands in one behaviour.
MaxTracks == 5

\* Star reaction events in one behaviour.
MaxEvents == 3

----------------------------------------------------------------------------
(* Program constants.                                                      *)

\* EconomySystem.__init__(..., starting_balance: int = 1000)
starting_balance == 1000

\* self.config['daily_reward']
daily_reward == 100

\* self.config['daily_streak_bonus']
daily_streak_bonus == 50

\* The database file of the Economy, Work, Fishing and Leaderboard cogs.
EconomyDb == "db/economy.db"

\* The database file of the Payment cog: EconomySystem() with the default path.
PaymentDb == "economy.db"

DbPaths == {EconomyDb, PaymentDb}

----------------------------------------------------------------------------
(* Inputs.                                                                 *)

UserIds == {1, 2}

\* Signed deltas handed to update_balance.
Amounts == {-900, -60, 60}

\* Amounts handed to deposit and withdraw.
MoveAmounts == {-60, 60, 900}

\* Hours between the previous operation and a claim_daily call.
Delays == {0, 20, 30, 50}

\* A NULL column, and a datetime column holding t, is <<>> and <<t>>.
NULL == <<>>

\* role_reward of an item that grants no role (None).
NoRole == "None"

----------------------------------------------------------------------------
(* Tables.                                                                 *)

\* create_tables: the three tables exist and are empty.
EmptyDb == [users |-> <<>>, transactions |-> <<>>, shop |-> <<>>]

\* The row INSERT INTO users (user_id, balance) creates: the other columns
\* take their defaults.
NewUserRow ==
    [balance |-> starting_balance, bank_balance |-> 0, last_daily |-> NULL,
     daily_streak |-> 0, inventory |-> <<>>]

HasUser(L, user_id) == user_id \in DOMAIN L.users

\* with self.conn: the statements run in one transaction. stmts[i] is the
\* database after the first i statements; failAt = 0 commits them all,
\* failAt = i > 0 means statement i raises sqlite3.OperationalError, the
\* context manager rolls back and the error propagates.
WithConn(old, stmts, failAt) ==
    IF failAt = 0 THEN [db |-> stmts[Len(stmts)], raised |-> "none"]
    ELSE [db |-> old, raised |-> "OperationalError"]

----------------------------------------------------------------------------
(* Basic economy functions.                                                *)

\* What the caller of a library function sees.
Outcome(raised) ==
    CASE raised = "none" -> "ok"
      [] raised = "OperationalError" -> "StorageError"
      [] OTHER -> raised

\* INSERT INTO users (user_id, balance) VALUES (?, ?): user_id is the
\* PRIMARY KEY, so a second row for it raises IntegrityError.
InsertOrReplaceUser(L, user_id) ==
    [db |-> [L EXCEPT !.users =
                [u \in DOMAIN L.users \cup {user_id} |->
                    IF u = user_id THEN NewUserRow ELSE L.users[u]]],
     raised |-> "none"]

InsertUser(L, user_id) ==
    IF HasUser(L, user_id)
    THEN [db |-> L, raised |-> "IntegrityError"]
    ELSE [db |-> [L EXCEPT !.users = @ @@ (user_id :> NewUserRow)],
          raised |-> "none"]

\* add_user: the INSERT in a transaction of its own; IntegrityError is
\* caught and reported as False.
add_user(L, user_id) ==
    LET r == InsertUser(L, user_id)
    IN  [db |-> r.db, ret |-> r.raised = "none",
         raised |-> IF r.raised = "IntegrityError" THEN "none" ELSE r.raised]

\* get_balance: SELECT balance, bank_balance; a missing row is created and
\* the starting balance is returned without a second read.
get_balance_default_row(L, user_id) ==
    IF HasUser(L, user_id)
    THEN [db |-> L, wallet |-> L.users[user_id].balance,
          bank |-> L.users[user_id].bank_balance]
    ELSE [db |-> add_user(L, user_id).db, wallet |-> 0, bank |-> 0]

get_balance(L, user_id) ==
    IF HasUser(L, user_id)
    THEN [db |-> L, wallet |-> L.users[user_id].balance,
          bank |-> L.users[user_id].bank_balance]
    ELSE [db |-> add_user(L, user_id).db, wallet |-> starting_balance, bank |-> 0]

\* UPDATE users SET balance = ? WHERE user_id = ?
SetBalance(L, user_id, new_balance) ==
    IF HasUser(L, user_id)
    THEN [L EXCEPT !.users[user_id].balance = new_balance]
    ELSE L

\* INSERT INTO transactions (user_id, amount, type, description)
InsertTransaction(L, user_id, amount, type) ==
    [L EXCEPT !.transactions =
        Append(@, [user_id |-> user_id, amount |-> amount, type |-> type])]

\* if new_balance < 0: raise ValueError("Insufficient funds")
InsufficientUnchecked(new_balance) == FALSE

Insufficient(new_balance) == new_balance < 0

\* update_balance: read, check, then UPDATE and INSERT in one transaction.
update_balance(L, user_id, amount, type, failAt) ==
    LET balance == get_balance(L, user_id)
        new_balance == balance.wallet + amount
    IN  IF Insufficient(new_balance)
        THEN [db |-> balance.db, raised |-> "ValueError"]
        ELSE LET s1 == SetBalance(balance.db, user_id, new_balance)
                 s2 == InsertTransaction(s1, user_id, amount, type)
             IN  WithConn(balance.db, <<s1, s2>>, failAt)

----------------------------------------------------------------------------
(* Banking functions.                                                      *)

\* UPDATE users SET balance = balance - ?, bank_balance = bank_balance + ?
MoveToBankLossy(L, user_id, amount) ==
    IF HasUser(L, user_id)
    THEN [L EXCEPT !.users[user_id].balance = @ - amount]
    ELSE L

MoveToBank(L, user_id, amount) ==
    IF HasUser(L, user_id)
    THEN [L EXCEPT !.users[user_id].balance = @ - amount,
                   !.users[user_id].bank_balance = @ + amount]
    ELSE L

\* deposit: wallet -> bank.
deposit(L, user_id, amount, failAt) ==
    LET balance == get_balance(L, user_id)
    IN  IF balance.wallet < amount
        THEN [db |-> balance.db, raised |-> "ValueError"]
        ELSE WithConn(balance.db, <<MoveToBank(balance.db, user_id, amount)>>, failAt)

\* withdraw: bank -> wallet (the same statement with the signs swapped).
withdraw(L, user_id, amount, failAt) ==
    LET balance == get_balance(L, user_id)
    IN  IF balance.bank < amount
        THEN [db |-> balance.db, raised |-> "ValueError"]
        ELSE WithConn(balance.db, <<MoveToBank(balance.db, user_id, -amount)>>, failAt)

\* The amount argument of the deposit and withdraw commands
\* (cogs/economy.py): "all", or a text handed to int().
AmountArgs ==
    { [text |-> "all", all |-> TRUE,  literal |-> TRUE,  value |-> 0],
      [text |-> "60",  all |-> FALSE, literal |-> TRUE,  value |-> 60],
      [text |-> "0",   all |-> FALSE, literal |-> TRUE,  value |-> 0],
      [text |-> "-60", all |-> FALSE, literal |-> TRUE,  value |-> -60],
      [text |-> "abc", all |-> FALSE, literal |-> FALSE, value |-> 0] }

\* The deposit command: "all" reads the wallet, anything else goes through
\* int(); amount <= 0 is answered before the library is called; ValueError
\* (from int() or from the library) is answered with its message.
deposit_command(L, author, arg, failAt) ==
    LET balance == get_balance(L, author)
        L1 == IF arg.all THEN balance.db ELSE L
        amount == IF arg.all THEN balance.wallet ELSE arg.value
    IN  IF ~arg.literal
        THEN [db |-> L, reply |-> "InvalidLiteral", amount |-> 0]
        ELSE IF amount <= 0
        THEN [db |-> L1, reply |-> "AmountNotPositive", amount |-> amount]
        ELSE LET r == deposit(L1, author, amount, failAt)
             IN  [db |-> r.db, amount |-> amount,
                  reply |-> IF r.raised = "ValueError"
                            THEN "InsufficientFunds" ELSE Outcome(r.raised)]

\* The withdraw command: the same with the bank balance.
withdraw_command(L, author, arg, failAt) ==
    LET balance == get_balance(L, author)
        L1 == IF arg.all THEN balance.db ELSE L
        amount == IF arg.all THEN balance.bank ELSE arg.value
    IN  IF ~arg.literal
        THEN [db |-> L, reply |-> "InvalidLiteral", amount |-> 0]
        ELSE IF amount <= 0
        THEN [db |-> L1, reply |-> "AmountNotPositive", amount |-> amount]
        ELSE LET r == withdraw(L1, author, amount, failAt)
             IN  [db |-> r.db, amount |-> amount,
                  reply |-> IF r.raised = "ValueError"
                            THEN "InsufficientFunds" ELSE Outcome(r.raised)]

----------------------------------------------------------------------------
(* Daily rewards.                                                          *)

\* A datetime is [h, us]: whole hours since the start, and whether the
\* microsecond field is non-zero.  sqlite3 stores datetime.now() through
\* isoformat(" "), which writes the fraction only when it is non-zero;
\* strptime(last_daily, '%Y-%m-%d %H:%M:%S') accepts no fraction.
Parseable(last_daily) == last_daily.us = 0

\* hours_passed < 24, with hours_passed = (now - last_daily) / 3600 s and
\* last_daily a parsed value (no fraction).
TooSoon(t, last_daily) == t.h - last_daily.h < 24

\* hours_passed <= 48
StreakContinues(t, last_daily) ==
    \/ t.h - last_daily.h < 48
    \/ t.h - last_daily.h = 48 /\ t.us = 0

\* streak_bonus = self.config["daily_streak_bonus"] * (streak - 1)
StreakBonusPerDay(streak) == daily_streak_bonus * streak

StreakBonus(streak) == daily_streak_bonus * (streak - 1)

\* claim_daily at time t.  Returns the database, the exception raised, the
\* result dict and, for the "available in N hours" error, N.
claim_daily(L, user_id, t, failAt) ==
    LET exists == HasUser(L, user_id)
        L1 == IF exists THEN L ELSE add_user(L, user_id).db
        stored == IF exists THEN L.users[user_id].last_daily ELSE NULL
        last_daily == IF stored = NULL THEN [h |-> 0, us |-> 0] ELSE stored[1]
        streak0 == IF exists THEN L.users[user_id].daily_streak ELSE 0
        none == [amount |-> 0, streak |-> 0, streak_bonus |-> 0]
    IN  IF stored # NULL /\ ~Parseable(last_daily)
        THEN [db |-> L1, raised |-> "ValueError:strptime", ret |-> none,
              hours |-> 0]
        ELSE IF stored # NULL /\ TooSoon(t, last_daily)
        THEN [db |-> L1, raised |-> "ValueError:TooSoon", ret |-> none,
              hours |-> 24 - (t.h - last_daily.h)]
        ELSE
          LET streak == IF stored = NULL THEN 1
                        ELSE IF StreakContinues(t, last_daily) THEN streak0 + 1
                        ELSE 1
              streak_bonus == StreakBonus(streak)
              total_amount == daily_reward + streak_bonus
              s1 == [L1 EXCEPT !.users[user_id].balance = @ + total_amount,
                               !.users[user_id].last_daily = <<t>>,
                               !.users[user_id].daily_streak = streak]
              w == WithConn(L1, <<s1>>, failAt)
          IN  [db |-> w.db, raised |-> w.raised,
               ret |-> [amount |-> total_amount, streak |-> streak,
                        streak_bonus |-> streak_bonus],
               hours |-> 0]

----------------------------------------------------------------------------
(* Inventory and shop.                                                     *)

\* get_inventory: json.loads of the inventory column, {} without a row.
get_inventory(L, user_id) ==
    IF HasUser(L, user_id) THEN L.users[user_id].inventory ELSE <<>>

\* inventory[item_name] = inventory.get(item_name, 0) + quantity
Put(inventory, item_name, quantity) ==
    LET old == IF item_name \in DOMAIN inventory THEN inventory[item_name] ELSE 0
    IN  [i \in DOMAIN inventory \cup {item_name} |->
            IF i = item_name THEN old + quantity ELSE inventory[i]]

\* The UPDATE of add_to_inventory (it changes no row when the user has none).
SetInventory(L, user_id, item_name, quantity) ==
    IF HasUser(L, user_id)
    THEN [L EXCEPT !.users[user_id].inventory =
            Put(get_inventory(L, user_id), item_name, quantity)]
    ELSE L

\* The items add_shop_item is called with.
ShopCatalog ==
    { [name |-> "Sword", price |-> 100, stock |-> 1, role_reward |-> NoRole],
      [name |-> "VIP Role", price |-> 900, stock |-> -1, role_reward |-> "VIP"] }

\* add_shop_item: INSERT INTO shop; name is UNIQUE.
add_shop_item(L, item) ==
    IF item.name \in DOMAIN L.shop
    THEN [db |-> L, raised |-> "IntegrityError"]
    ELSE [db |-> [L EXCEPT !.shop = @ @@ (item.name :>
                    [price |-> item.price, stock |-> item.stock,
                     role_reward |-> item.role_reward, is_active |-> TRUE])],
          raised |-> "none"]

\* if stock == 0: raise ValueError("Item out of stock")
OutOfStockUnchecked(stock) == FALSE

OutOfStock(stock) == stock = 0

\* if stock > 0: the stock UPDATE runs (-1 is unlimited stock).
LimitedOrNot(stock) == TRUE

Limited(stock) == stock > 0

\* UPDATE shop SET stock = stock - 1 WHERE name = ?
StockAfterSaleKept(stock) == stock

StockAfterSale(stock) == stock - 1

\* buy_item.  The outer "with self.conn" holds the stock UPDATE; the
\* "with self.conn" inside add_to_inventory commits it together with the
\* inventory UPDATE when it exits; update_balance then runs, and commits,
\* a transaction of its own.  failAt: 1 the stock UPDATE raises, 2 the
\* inventory UPDATE raises, 3 and 4 the UPDATE and the INSERT of
\* update_balance raise.
buy_item(L, user_id, item_name, failAt) ==
    IF ~(item_name \in DOMAIN L.shop /\ L.shop[item_name].is_active)
    THEN [db |-> L, raised |-> "ValueError:Item not found", ret |-> <<>>]
    ELSE
      LET item == L.shop[item_name]
          balance == get_balance(L, user_id)
          L1 == balance.db
          ret == [item |-> item_name, price |-> item.price,
                  role_reward |-> item.role_reward]
      IN  IF OutOfStock(item.stock)
          THEN [db |-> L, raised |-> "ValueError:Item out of stock", ret |-> <<>>]
          ELSE IF balance.wallet < item.price
          THEN [db |-> L1, raised |-> "ValueError:Insufficient funds", ret |-> <<>>]
          ELSE
            LET s1 == IF Limited(item.stock)
                      THEN [L1 EXCEPT !.shop[item_name].stock = StockAfterSale(@)]
                      ELSE L1
                s2 == SetInventory(s1, user_id, item_name, 1)
                inner == WithConn(L1, <<s1, s2>>,
                                  IF failAt \in {1, 2} THEN failAt ELSE 0)
            IN  IF inner.raised # "none"
                THEN [db |-> inner.db, raised |-> inner.raised, ret |-> <<>>]
                ELSE LET paid == update_balance(inner.db, user_id, -item.price,
                                     "purchase", IF failAt >= 3 THEN failAt - 2 ELSE 0)
                     IN  [db |-> paid.db, raised |-> paid.raised,
                          ret |-> IF paid.raised = "none" THEN ret ELSE <<>>]

----------------------------------------------------------------------------
(* Leaderboard (utils/eco.py and cogs/leader.py).                          *)

\* balance + bank_balance as total
Total(L, user_id) == L.users[user_id].balance + L.users[user_id].bank_balance

\* ORDER BY total DESC over a scan of users.  user_id is the INTEGER PRIMARY
\* KEY, so the scan runs in ascending user_id, and the sorter SQLite uses
\* for ORDER BY ... LIMIT keeps rows of equal total in scan order.
BeforeTiesReversed(L, u, v) ==
    \/ Total(L, u) > Total(L, v)
    \/ Total(L, u) = Total(L, v) /\ u > v

Before(L, u, v) ==
    \/ Total(L, u) > Total(L, v)
    \/ Total(L, u) = Total(L, v) /\ u < v

\* The rows (user_id, total) of the users in S, in the order of the query.
RECURSIVE Ranking(_, _)
Ranking(L, S) ==
    IF S = {} THEN <<>>
    ELSE LET first == CHOOSE u \in S : \A v \in S \ {u} : Before(L, u, v)
         IN  <<[user_id |-> first, total |-> Total(L, first)]>>
             \o Ranking(L, S \ {first})

\* get_leaderboard(limit): LIMIT ? (a negative limit is no limit).
get_leaderboard(L, limit) ==
    LET all == Ranking(L, DOMAIN L.users)
    IN  IF limit < 0 \/ limit >= Len(all) THEN all ELSE SubSeq(all, 1, limit)

\* limit = 10 in get_leaderboard_embed.
PageSize == 10

\* The leaderboard command: page < 1 and page > total_pages are answered;
\* get_leaderboard_embed then calls get_leaderboard(limit=limit,
\* offset=offset), a keyword the function does not have: TypeError.
leaderboard_command(L, page) ==
    LET total_users == Len(get_leaderboard(L, 1000))
        pages == (total_users - 1) \div PageSize + 1
        total_pages == IF pages > 1 THEN pages ELSE 1
    IN  IF page < 1 THEN [reply |-> "PageNotPositive", rows |-> <<>>]
        ELSE IF page > total_pages THEN [reply |-> "InvalidPage", rows |-> <<>>]
        ELSE [reply |-> "TypeError", rows |-> <<>>]

----------------------------------------------------------------------------
(* The pay command (cogs/pay.py).                                          *)

\* Truncation toward zero, as int() truncates a float.
Trunc(n, d) == IF n >= 0 THEN n \div d ELSE -((-n) \div d)

Multiplier(suffix) ==
    CASE suffix = "k" -> 1000
      [] suffix = "m" -> 1000000
      [] suffix = "b" -> 1000000000
      [] OTHER -> 1

\* The amount argument as typed: a decimal number of tenths/10 followed by
\* an optional k, m or b, or text that float() rejects.
AmountTexts ==
    { [text |-> "60",   tenths |-> 600, suffix |-> "",  malformed |-> FALSE],
      [text |-> "-60",  tenths |-> -600, suffix |-> "", malformed |-> FALSE],
      [text |-> "0.5",  tenths |-> 5,   suffix |-> "",  malformed |-> FALSE],
      [text |-> "1.5k", tenths |-> 15,  suffix |-> "k", malformed |-> FALSE],
      [text |-> "abc",  tenths |-> 0,   suffix |-> "",  malformed |-> TRUE] }

\* parse_amount: int(float(number) * multiplier), ValueError on bad text.
parse_amount(amount) ==
    IF amount.malformed
    THEN [raised |-> TRUE, value |-> 0]
    ELSE [raised |-> FALSE,
          value |-> Trunc(amount.tenths * Multiplier(amount.suffix), 10)]

\* if parsed_amount <= 0: reply "Amount must be positive!"
NotPositiveOnlyNegative(parsed_amount) == parsed_amount < 0

NotPositive(parsed_amount) == parsed_amount <= 0

\* if sender_balance["wallet"] < parsed_amount: reply "Insufficient funds!"
SenderLacksUnchecked(wallet, parsed_amount) == FALSE

SenderLacks(wallet, parsed_amount) == wallet < parsed_amount

\* The reply to an exception that leaves the try block of pay.
PayExcept(raised) ==
    IF raised = "ValueError" THEN "InvalidAmountFormat" ELSE "Error"

\* Payment.pay on database L.  failAt: 1, 2 the UPDATE and the INSERT of the
\* debit raise; 3, 4 those of the credit.
pay(L, author, recipient, amount, failAt) ==
    LET parsed == parse_amount(amount)
        sender_balance == get_balance(L, author)
        L1 == sender_balance.db
    IN  IF parsed.raised
        THEN [db |-> L, reply |-> PayExcept("ValueError")]
        ELSE IF NotPositive(parsed.value)
        THEN [db |-> L, reply |-> "AmountNotPositive"]
        ELSE IF SenderLacks(sender_balance.wallet, parsed.value)
        THEN [db |-> L1, reply |-> "InsufficientFunds"]
        ELSE IF author = recipient
        THEN [db |-> L1, reply |-> "SelfPay"]
        ELSE
          LET debit == update_balance(L1, author, -parsed.value, "transfer_sent",
                                      IF failAt \in {1, 2} THEN failAt ELSE 0)
              credit == update_balance(debit.db, recipient, parsed.value,
                                       "transfer_received",
                                       IF failAt >= 3 THEN failAt - 2 ELSE 0)
          IN  IF debit.raised # "none"
              THEN [db |-> debit.db, reply |-> PayExcept(debit.raised)]
              ELSE IF credit.raised # "none"
              THEN [db |-> credit.db, reply |-> PayExcept(credit.raised)]
              ELSE [db |-> credit.db, reply |-> "Success"]

----------------------------------------------------------------------------
(* The state machine, one call at a time: the commands of the bot run on   *)
(* one event loop and no EconomySystem method awaits.                      *)

\* No call of the step-by-step machine below is in progress.
Idle == [pc |-> "idle", user |-> 0, amount |-> 0, at_call |-> 0, wallet |-> 0,
         new_balance |-> 0, status |-> "none"]

\* The connections of the step-by-step machine, each an EconomySystem on
\* the database file of the Economy cog.
Conns == {"A", "B"}

\* The write lock of that database file: its holder and the holder's
\* uncommitted copy of the tables.
Unlocked == [holder |-> "none", staged |-> EmptyDb]

\* The moderation commands in progress (interactions handled by tasks of
\* the event loop).
Mods == {"m1", "m2"}

\* The members a moderation command names.
Members == {1, 2}

\* No moderation command is running in this task.
NoCommand == [pc |-> "idle", action |-> "none", user |-> 0, case_id |-> 0,
              reply |-> "none"]

\* The moderation database of one guild and what Discord holds for it:
\* cases maps case_id to its row (PRIMARY KEY (guild_id, case_id)),
\* warnings counts the rows of the warnings table per user, applied is the
\* set of bans, timeouts and kicks that Discord has carried out.
ModInit ==
    [cases |-> <<>>, warnings |-> [u \in Members |-> 0], applied |-> {},
     cmds |-> [m \in Mods |-> NoCommand], started |-> 0]

\* None, for a track.
None == 0

\* The tracks of the playlist that fetch_tracks finds.
PlaylistLen == 2

\* GuildMusicState.__init__ (autoplay stays off), no voice client, and no
\* stop command running.
MusicInit ==
    [queue |-> <<>>, current_track |-> None, playing |-> None, events |-> 0,
     handed |-> <<>>, added |-> 0, connected |-> FALSE, stop_pc |-> "idle"]

\* The tasks that handle reaction events.
Handlers == {"h1", "h2"}

\* No row of starred_messages for the message.
NoRow == <<>>

\* get_config: (None, 3) without a row of config.
DefaultThreshold == 3

\* The thresholds /starboard threshold is given.
Thresholds == {1, DefaultThreshold}

\* setup_database: empty tables; no reaction and no starboard post yet.
StarInit ==
    [channel |-> FALSE, threshold |-> DefaultThreshold, stars |-> {},
     row |-> NoRow, posts |-> {}, next_post |-> 1, events |-> 0,
     handlers |-> [h \in Handlers |-> [pc |-> "idle", post |-> 0]]]

\* self.default_prefix = "!"
default_prefix == "!"

\* if len(prefix) > 10
MaxPrefixLen == 10

\* if len(prefixes) >= 10
MaxPrefixes == 10

\* The guilds of the bot.
Guilds == {1, 2}

\* The prefix a command is given: in guild 1 the empty text, the default
\* prefix, a text of 11 characters and nine other texts (one more than a
\* guild may keep); in guild 2 one text.
PrefixArgs(guild_id) ==
    IF guild_id = 1
      THEN {"", default_prefix, "elevenchars", "?", "$", "%", "&", "+", "-",
            ".", ">>", "mayumi "}
      ELSE {"?"}

\* setup_database and load_prefixes on an empty table.
PrefixInit ==
    [rows |-> {}, cache |-> <<>>,
     reply |-> [op |-> "init", guild |-> 0, status |-> "none"]]

Init ==
    /\ db = [p \in DbPaths |-> EmptyDb]
    /\ now = [h |-> 0, us |-> 0]
    /\ reply = [op |-> "init", user |-> 0, peer |-> 0, amount |-> 0,
                item |-> "", status |-> "none", ret |-> <<>>]
    /\ steps = 0
    /\ calls = [c \in Conns |-> Idle]
    /\ lock = Unlocked
    /\ account_status = [u \in UserIds |-> "active"]
    /\ mod = ModInit
    /\ music = MusicInit
    /\ star = StarInit
    /\ prefix = PrefixInit

Invoke ==
    /\ steps < MaxSteps
    /\ steps' = steps + 1
    /\ UNCHANGED <<calls, lock, account_status, cogs>>

\* A storage failure is chosen only where a statement runs.
Failed(failAt, raised) == failAt # 0 => raised = "OperationalError"

AddUser ==
    \E user_id \in UserIds :
      LET r == add_user(db[EconomyDb], user_id)
      IN  /\ Invoke
          /\ db' = [db EXCEPT ![EconomyDb] = r.db]
          /\ reply' = [op |-> "add_user", user |-> user_id, peer |-> 0,
                       amount |-> 0, item |-> "",
                       status |-> Outcome(r.raised), ret |-> r.ret]
          /\ UNCHANGED now

GetBalance ==
    \E user_id \in UserIds :
      LET r == get_balance(db[EconomyDb], user_id)
      IN  /\ Invoke
          /\ db' = [db EXCEPT ![EconomyDb] = r.db]
          /\ reply' = [op |-> "get_balance", user |-> user_id, peer |-> 0,
                       amount |-> 0, item |-> "", status |-> "ok",
                       ret |-> [wallet |-> r.wallet, bank |-> r.bank]]
          /\ UNCHANGED now

UpdateBalance ==
    \E user_id \in UserIds, amount \in Amounts, failAt \in 0..2 :
      LET r == update_balance(db[EconomyDb], user_id, amount, "generic", failAt)
      IN  /\ Invoke
          /\ Failed(failAt, r.raised)
          /\ db' = [db EXCEPT ![EconomyDb] = r.db]
          /\ reply' = [op |-> "update_balance", user |-> user_id, peer |-> 0,
                       amount |-> amount, item |-> "",
                       status |-> IF r.raised = "ValueError"
                                  THEN "InsufficientFunds" ELSE Outcome(r.raised),
                       ret |-> <<>>]
          /\ UNCHANGED now

Deposit ==
    \E user_id \in UserIds, amount \in MoveAmounts, failAt \in 0..1 :
      LET r == deposit(db[EconomyDb], user_id, amount, failAt)
      IN  /\ Invoke
          /\ Failed(failAt, r.raised)
          /\ db' = [db EXCEPT ![EconomyDb] = r.db]
          /\ reply' = [op |-> "deposit", user |-> user_id, peer |-> 0,
                       amount |-> amount, item |-> "",
                       status |-> IF r.raised = "ValueError"
                                  THEN "InsufficientFunds" ELSE Outcome(r.raised),
                       ret |-> <<>>]
          /\ UNCHANGED now

Withdraw ==
    \E user_id \in UserIds, amount \in MoveAmounts, failAt \in 0..1 :
      LET r == withdraw(db[EconomyDb], user_id, amount, failAt)
      IN  /\ Invoke
          /\ Failed(failAt, r.raised)
          /\ db' = [db EXCEPT ![EconomyDb] = r.db]
          /\ reply' = [op |-> "withdraw", user |-> user_id, peer |-> 0,
                       amount |-> amount, item |-> "",
                       status |-> IF r.raised = "ValueError"
                                  THEN "InsufficientFunds" ELSE Outcome(r.raised),
                       ret |-> <<>>]
          /\ UNCHANGED now

DepositCommand ==
    \E author \in UserIds, arg \in AmountArgs, failAt \in 0..1 :
      LET r == deposit_command(db[EconomyDb], author, arg, failAt)
      IN  /\ Invoke
          /\ failAt # 0 => r.reply = "StorageError"
          /\ db' = [db EXCEPT ![EconomyDb] = r.db]
          /\ reply' = [op |-> "deposit_command", user |-> author, peer |-> 0,
                       amount |-> r.amount, item |-> arg.text,
                       status |-> r.reply, ret |-> <<>>]
          /\ UNCHANGED now

WithdrawCommand ==
    \E author \in UserIds, arg \in AmountArgs, failAt \in 0..1 :
      LET r == withdraw_command(db[EconomyDb], author, arg, failAt)
      IN  /\ Invoke
          /\ failAt # 0 => r.reply = "StorageError"
          /\ db' = [db EXCEPT ![EconomyDb] = r.db]
          /\ reply' = [op |-> "withdraw_command", user |-> author, peer |-> 0,
                       amount |-> r.amount, item |-> arg.text,
                       status |-> r.reply, ret |-> <<>>]
          /\ UNCHANGED now

\* claim_daily, called delay hours after the previous operation.
ClaimDaily ==
    \E user_id \in UserIds, delay \in Delays, us \in 0..1, failAt \in 0..1 :
      LET t == [h |-> now.h + delay, us |-> us]
          r == claim_daily(db[EconomyDb], user_id, t, failAt)
      IN  /\ Invoke
          /\ Failed(failAt, r.raised)
          /\ now' = t
          /\ db' = [db EXCEPT ![EconomyDb] = r.db]
          /\ reply' = [op |-> "claim_daily", user |-> user_id, peer |-> 0,
                       amount |-> IF r.raised = "none" THEN r.ret.amount ELSE 0,
                       item |-> "", status |-> Outcome(r.raised),
                       ret |-> IF r.raised = "ValueError:TooSoon"
                               THEN [hours |-> r.hours] ELSE r.ret]

AddShopItem ==
    \E item \in ShopCatalog :
      LET r == add_shop_item(db[EconomyDb], item)
      IN  /\ Invoke
          /\ db' = [db EXCEPT ![EconomyDb] = r.db]
          /\ reply' = [op |-> "add_shop_item", user |-> 0, peer |-> 0,
                       amount |-> item.price, item |-> item.name,
                       status |-> Outcome(r.raised), ret |-> <<>>]
          /\ UNCHANGED now

BuyItem ==
    \E user_id \in UserIds, item \in ShopCatalog, failAt \in 0..4 :
      LET r == buy_item(db[EconomyDb], user_id, item.name, failAt)
      IN  /\ Invoke
          /\ Failed(failAt, r.raised)
          /\ db' = [db EXCEPT ![EconomyDb] = r.db]
          /\ reply' = [op |-> "buy_item", user |-> user_id, peer |-> 0,
                       amount |-> item.price, item |-> item.name,
                       status |-> Outcome(r.raised), ret |-> r.ret]
          /\ UNCHANGED now

\* The limits get_leaderboard is called with.
Limits == {1, 2, 1000}

GetLeaderboard ==
    \E limit \in Limits :
      /\ Invoke
      /\ reply' = [op |-> "get_leaderboard", user |-> 0, peer |-> 0,
                   amount |-> limit, item |-> "", status |-> "ok",
                   ret |-> get_leaderboard(db[EconomyDb], limit)]
      /\ UNCHANGED <<db, now>>

\* The pages the leaderboard command is called with.
Pages == {0, 1, 2}

LeaderboardCommand ==
    \E page \in Pages :
      LET r == leaderboard_command(db[EconomyDb], page)
      IN  /\ Invoke
          /\ reply' = [op |-> "leaderboard_command", user |-> 0, peer |-> 0,
                       amount |-> page, item |-> "", status |-> r.reply,
                       ret |-> r.rows]
          /\ UNCHANGED <<db, now>>

\* The pay command: the Payment cog holds its own EconomySystem().
Pay ==
    \E author \in UserIds, recipient \in UserIds, amount \in AmountTexts,
       failAt \in 0..4 :
      LET r == pay(db[PaymentDb], author, recipient, amount, failAt)
      IN  /\ Invoke
          /\ failAt # 0 => r.reply = "Error"
          /\ db' = [db EXCEPT ![PaymentDb] = r.db]
          /\ reply' = [op |-> "pay", user |-> author, peer |-> recipient,
                       amount |-> parse_amount(amount).value, item |-> amount.text,
                       status |-> r.reply, ret |-> <<>>]
          /\ UNCHANGED now

\* The account status of the specification's data model (active or
\* frozen).  utils/eco.py has no such column and no function that sets it:
\* the status and the two administrative operations below follow the
\* specification, and no function of utils/eco.py reads it.
FreezeAccount ==
    \E user_id \in UserIds :
      /\ steps < MaxSteps
      /\ steps' = steps + 1
      /\ account_status[user_id] = "active"
      /\ account_status' = [account_status EXCEPT ![user_id] = "frozen"]
      /\ reply' = [op |-> "freeze", user |-> user_id, peer |-> 0, amount |-> 0,
                   item |-> "", status |-> "ok", ret |-> <<>>]
      /\ UNCHANGED <<db, now, calls, lock, cogs>>

UnfreezeAccount ==
    \E user_id \in UserIds :
      /\ steps < MaxSteps
      /\ steps' = steps + 1
      /\ account_status[user_id] = "frozen"
      /\ account_status' = [account_status EXCEPT ![user_id] = "active"]
      /\ reply' = [op |-> "unfreeze", user |-> user_id, peer |-> 0, amount |-> 0,
                   item |-> "", status |-> "ok", ret |-> <<>>]
      /\ UNCHANGED <<db, now, calls, lock, cogs>>

NextLedger ==
    \/ AddUser
    \/ GetBalance
    \/ UpdateBalance
    \/ Deposit
    \/ Withdraw
    \/ ClaimDaily
    \/ AddShopItem
    \/ BuyItem

\* The deposit and withdraw commands of the Economy cog.
NextCommands == DepositCommand \/ WithdrawCommand

\* Wealth changes and leaderboard queries.
NextRanking == UpdateBalance \/ Deposit \/ GetLeaderboard \/ LeaderboardCommand

Next == NextLedger \/ NextCommands \/ NextRanking \/ Pay

Spec == Init /\ [][Next]_vars

\* The library on the database of the Economy cog.
SpecLedger == Init /\ [][NextLedger]_vars

\* Balance updates and daily claims only.
NextDaily == UpdateBalance \/ ClaimDaily

SpecDaily == Init /\ [][NextDaily]_vars

\* Moves between wallet and bank, by the library and by the commands.
NextBank == UpdateBalance \/ Deposit \/ Withdraw \/ NextCommands

SpecBank == Init /\ [][NextBank]_vars

SpecRanking == Init /\ [][NextRanking]_vars

\* The shop: items are added and bought, wallets are credited and debited.
NextShop == UpdateBalance \/ AddShopItem \/ BuyItem

SpecShop == Init /\ [][NextShop]_vars

\* Balance updates on accounts that an administrator freezes and unfreezes.
NextFrozen == UpdateBalance \/ FreezeAccount \/ UnfreezeAccount

SpecFrozen == Init /\ [][NextFrozen]_vars

\* The pay command followed by the balance and leaderboard queries of the
\* Economy and Leaderboard cogs.
NextQueries == Pay \/ GetBalance \/ GetLeaderboard

SpecQueries == Init /\ [][NextQueries]_vars

\* The database of the Payment cog: only pay touches it.
SpecPay == Init /\ [][Pay]_vars

----------------------------------------------------------------------------
(* update_balance statement by statement, for callers that hold one        *)
(* connection each to the same database file.  SQLite serialises the write *)
(* transactions (lock); the SELECT of line 143 runs before the transaction *)
(* of lines 149-159 begins and takes no lock that outlives it.             *)

Committed == db[EconomyDb]

\* The wallet get_balance would report for user_id.
WalletOf(L, user_id) ==
    IF HasUser(L, user_id) THEN L.users[user_id].balance ELSE starting_balance

\* The bank balance get_balance would report for user_id.
BankOf(L, user_id) ==
    IF HasUser(L, user_id) THEN L.users[user_id].bank_balance ELSE 0

\* A caller enters update_balance(user_id, amount).
UbCall(c) ==
    \E user_id \in UserIds, amount \in Amounts :
      /\ calls[c].pc = "idle"
      /\ steps < MaxSteps
      /\ steps' = steps + 1
      /\ calls' = [calls EXCEPT ![c] =
            [pc |-> "read", user |-> user_id, amount |-> amount,
             at_call |-> WalletOf(Committed, user_id), wallet |-> 0,
             new_balance |-> 0, status |-> "running"]]
      /\ UNCHANGED <<db, now, reply, lock, account_status, cogs>>

\* Lines 143-147: balance = get_balance(user_id) (the INSERT of a missing row
\* is a write transaction and waits for the lock), new_balance, the check.
UbRead(c) ==
    LET call == calls[c]
        balance == get_balance(Committed, call.user)
        new_balance == balance.wallet + call.amount
    IN  /\ call.pc = "read"
        /\ HasUser(Committed, call.user) \/ lock.holder = "none"
        /\ db' = [db EXCEPT ![EconomyDb] = balance.db]
        /\ calls' = [calls EXCEPT ![c] =
              IF Insufficient(new_balance)
              THEN [call EXCEPT !.pc = "idle", !.wallet = balance.wallet,
                                !.new_balance = new_balance,
                                !.status = "InsufficientFunds"]
              ELSE [call EXCEPT !.pc = "update", !.wallet = balance.wallet,
                                !.new_balance = new_balance]]
        /\ UNCHANGED <<now, reply, steps, lock, account_status, cogs>>

\* Lines 149-154: the transaction begins with the UPDATE.
UbUpdate(c) ==
    /\ calls[c].pc = "update"
    /\ lock.holder = "none"
    /\ lock' = [holder |-> c,
                staged |-> SetBalance(Committed, calls[c].user, calls[c].new_balance)]
    /\ calls' = [calls EXCEPT ![c].pc = "insert"]
    /\ UNCHANGED <<db, now, reply, steps, account_status, cogs>>

\* Lines 156-159: the INSERT.
UbInsert(c) ==
    /\ calls[c].pc = "insert"
    /\ lock.holder = c
    /\ lock' = [lock EXCEPT !.staged =
          InsertTransaction(@, calls[c].user, calls[c].amount, "generic")]
    /\ calls' = [calls EXCEPT ![c].pc = "commit"]
    /\ UNCHANGED <<db, now, reply, steps, account_status, cogs>>

\* The with block exits: COMMIT.
UbCommit(c) ==
    /\ calls[c].pc = "commit"
    /\ lock.holder = c
    /\ db' = [db EXCEPT ![EconomyDb] = lock.staged]
    /\ lock' = Unlocked
    /\ calls' = [calls EXCEPT ![c].pc = "return"]
    /\ UNCHANGED <<now, reply, steps, account_status, cogs>>

\* Line 161: return self.get_balance(user_id).
UbReturn(c) ==
    /\ calls[c].pc = "return"
    /\ calls' = [calls EXCEPT ![c].pc = "idle", ![c].status = "ok",
                              ![c].wallet = WalletOf(Committed, calls[c].user)]
    /\ UNCHANGED <<db, now, reply, steps, lock, account_status, cogs>>

\* A statement of the transaction, or its COMMIT, raises: the with block
\* rolls back and the error propagates.
UbFail(c) ==
    /\ \/ calls[c].pc = "update" /\ lock.holder = "none"
       \/ calls[c].pc \in {"insert", "commit"} /\ lock.holder = c
    /\ lock' = Unlocked
    /\ calls' = [calls EXCEPT ![c].pc = "idle", ![c].status = "StorageError"]
    /\ UNCHANGED <<db, now, reply, steps, account_status, cogs>>

\* A caller enters add_user(user_id).
AuCall(c) ==
    \E user_id \in UserIds :
      /\ calls[c].pc = "idle"
      /\ steps < MaxSteps
      /\ steps' = steps + 1
      /\ calls' = [calls EXCEPT ![c] =
            [Idle EXCEPT !.pc = "au_insert", !.user = user_id,
                         !.status = "running"]]
      /\ UNCHANGED <<db, now, reply, lock, account_status, cogs>>

\* Lines 97-101: the INSERT begins a write transaction.  On IntegrityError
\* the with block rolls back and add_user returns False.
AuInsert(c) ==
    LET r == InsertUser(Committed, calls[c].user)
    IN  /\ calls[c].pc = "au_insert"
        /\ lock.holder = "none"
        /\ IF r.raised = "none"
           THEN /\ lock' = [holder |-> c, staged |-> r.db]
                /\ calls' = [calls EXCEPT ![c].pc = "au_commit"]
           ELSE /\ lock' = lock
                /\ calls' = [calls EXCEPT ![c].pc = "idle",
                        ![c].status = IF r.raised = "IntegrityError"
                                      THEN "False" ELSE r.raised]
        /\ UNCHANGED <<db, now, reply, steps, account_status, cogs>>

\* The with block exits: COMMIT, and add_user returns True.
AuCommit(c) ==
    /\ calls[c].pc = "au_commit"
    /\ lock.holder = c
    /\ db' = [db EXCEPT ![EconomyDb] = lock.staged]
    /\ lock' = Unlocked
    /\ calls' = [calls EXCEPT ![c].pc = "idle", ![c].status = "True"]
    /\ UNCHANGED <<now, reply, steps, account_status, cogs>>

NextConc ==
    \E c \in Conns :
      \/ AuCall(c)
      \/ AuInsert(c)
      \/ AuCommit(c)
      \/ UbCall(c)
      \/ UbRead(c)
      \/ UbUpdate(c)
      \/ UbInsert(c)
      \/ UbCommit(c)
      \/ UbReturn(c)
      \/ UbFail(c)

SpecConc == Init /\ [][NextConc]_vars

----------------------------------------------------------------------------
(* The moderation commands (cogs/moderation.py) of one guild.  A command   *)
(* runs in a task of the event loop: its code between two awaits is one    *)
(* step, and the other task may run at every await.                        *)

\* SELECT COALESCE(MAX(case_id), 0) + 1 FROM cases WHERE guild_id = ?
get_next_case_id(cases) ==
    IF DOMAIN cases = {} THEN 1
    ELSE (CHOOSE c \in DOMAIN cases : \A d \in DOMAIN cases : d <= c) + 1

\* INSERT INTO cases ...; conn.commit(): PRIMARY KEY (guild_id, case_id)
\* refuses a second row with the case_id (sqlite3.IntegrityError).
CaseIdTaken(cases, case_id) == case_id \in DOMAIN cases

InsertCase(cases, case_id, user, action) ==
    cases @@ (case_id :> [user_id |-> user, action |-> action])

\* What Discord or the warnings table holds once an action took effect.
Effect(cmd) == [action |-> cmd.action, user |-> cmd.user,
                case_id |-> cmd.case_id]

SetCmd(m, cmd) == [mod EXCEPT !.cmds[m] = cmd]

\* A handler is entered (the self and role checks have passed).
ModIdle(m) ==
    /\ mod.cmds[m].pc = "idle"
    /\ mod.started < MaxCommands

\* warn: case_id, both INSERTs and the commit run without an await.
Warn(m) ==
    /\ ModIdle(m)
    /\ \E user \in Members :
         LET case_id == get_next_case_id(mod.cases)
             cmd == [pc |-> "done", action |-> "warn", user |-> user,
                     case_id |-> case_id, reply |-> "ok"]
         IN mod' = [mod EXCEPT
                      !.cases = InsertCase(@, case_id, user, "warn"),
                      !.warnings[user] = @ + 1,
                      !.applied = @ \cup {Effect(cmd)},
                      !.cmds[m] = cmd,
                      !.started = @ + 1]
    /\ UNCHANGED exceptMod

\* ban, up to await self.send_dm(...).
Ban(m) ==
    /\ ModIdle(m)
    /\ \E user \in Members :
         mod' = [mod EXCEPT
                   !.cmds[m] = [pc |-> "dm", action |-> "ban", user |-> user,
                                case_id |-> get_next_case_id(mod.cases),
                                reply |-> "none"],
                   !.started = @ + 1]
    /\ UNCHANGED exceptMod

\* timeout, up to await user.edit(timeout=...).
Timeout(m) ==
    /\ ModIdle(m)
    /\ \E user \in Members :
         mod' = [mod EXCEPT
                   !.cmds[m] = [pc |-> "act", action |-> "timeout",
                                user |-> user,
                                case_id |-> get_next_case_id(mod.cases),
                                reply |-> "none"],
                   !.started = @ + 1]
    /\ UNCHANGED exceptMod

\* kick, up to await self.send_dm(...).
Kick(m) ==
    /\ ModIdle(m)
    /\ \E user \in Members :
         mod' = [mod EXCEPT
                   !.cmds[m] = [pc |-> "dm", action |-> "kick", user |-> user,
                                case_id |-> get_next_case_id(mod.cases),
                                reply |-> "none"],
                   !.started = @ + 1]
    /\ UNCHANGED exceptMod

\* send_dm returns.  ban goes on to await user.ban(...); kick inserts its
\* case row, commits and goes on to await user.kick(...), or is refused the
\* row and answers "Failed to kick user".
DmSent(m) ==
    LET cmd == mod.cmds[m] IN
    /\ cmd.pc = "dm"
    /\ mod' =
         IF cmd.action = "ban"
           THEN SetCmd(m, [cmd EXCEPT !.pc = "act"])
         ELSE IF CaseIdTaken(mod.cases, cmd.case_id)
           THEN SetCmd(m, [cmd EXCEPT !.pc = "done", !.reply = "Failed"])
         ELSE [mod EXCEPT
                 !.cases = InsertCase(@, cmd.case_id, cmd.user, "kick"),
                 !.cmds[m] = [cmd EXCEPT !.pc = "kick"]]
    /\ UNCHANGED exceptMod

\* user.ban or user.edit returns: Discord has banned or timed out the
\* member; the handler then inserts the case row and commits, or is refused
\* the row and answers "Failed to ban user" / "Failed to timeout user".
Acted(m) ==
    LET cmd == mod.cmds[m] IN
    /\ cmd.pc = "act"
    /\ mod' =
         IF CaseIdTaken(mod.cases, cmd.case_id)
           THEN [mod EXCEPT
                   !.applied = @ \cup {Effect(cmd)},
                   !.cmds[m] = [cmd EXCEPT !.pc = "done",
                                           !.reply = "Failed"]]
           ELSE [mod EXCEPT
                   !.applied = @ \cup {Effect(cmd)},
                   !.cases = InsertCase(@, cmd.case_id, cmd.user,
                                        cmd.action),
                   !.cmds[m] = [cmd EXCEPT !.pc = "done", !.reply = "ok"]]
    /\ UNCHANGED exceptMod

\* user.kick returns: Discord has kicked the member.
Kicked(m) ==
    LET cmd == mod.cmds[m] IN
    /\ cmd.pc = "kick"
    /\ mod' = [mod EXCEPT
                 !.applied = @ \cup {Effect(cmd)},
                 !.cmds[m] = [cmd EXCEPT !.pc = "done", !.reply = "ok"]]
    /\ UNCHANGED exceptMod

\* user.ban, user.edit or user.kick raises nextcord.Forbidden: nothing took
\* effect, the handler answers "I don't have permission ...".
Forbidden(m) ==
    LET cmd == mod.cmds[m] IN
    /\ cmd.pc \in {"act", "kick"}
    /\ mod' = SetCmd(m, [cmd EXCEPT !.pc = "done", !.reply = "Forbidden"])
    /\ UNCHANGED exceptMod

\* The answer is sent and the handler returns (finally: conn.close()).
Responded(m) ==
    /\ mod.cmds[m].pc = "done"
    /\ mod' = SetCmd(m, NoCommand)
    /\ UNCHANGED exceptMod

NextModeration ==
    \E m \in Mods :
      \/ Warn(m)
      \/ Ban(m)
      \/ Timeout(m)
      \/ Kick(m)
      \/ DmSent(m)
      \/ Acted(m)
      \/ Kicked(m)
      \/ Forbidden(m)
      \/ Responded(m)

SpecModeration == Init /\ [][NextModeration]_vars

----------------------------------------------------------------------------
(* The music player of one guild (cogs/music.py).  Tracks are numbered in  *)
(* the order the play command adds them; 0 stands for None.  playing is    *)
(* the track the Lavalink player plays, events the track-end events it has *)
(* sent that on_track_end has not handled yet, handed the tracks passed to *)
(* player.play and added the tracks the play command has taken, in order.  *)

\* fetch_tracks finds a single track.
Play ==
    /\ music.added < MaxTracks
    /\ LET track == music.added + 1 IN
       music' =
         IF music.current_track = None
           THEN [music EXCEPT !.current_track = track,
                              !.playing = track,
                              !.handed = Append(@, track),
                              !.added = track,
                              !.connected = TRUE,
                              !.stop_pc = "idle"]
           ELSE [music EXCEPT !.queue = Append(@, track),
                              !.added = track,
                              !.connected = TRUE,
                              !.stop_pc = "idle"]
    /\ UNCHANGED exceptMusic

\* fetch_tracks finds a playlist (of PlaylistLen tracks).
PlayPlaylist ==
    /\ music.added + PlaylistLen <= MaxTracks
    /\ LET tracks == [i \in 1..PlaylistLen |-> music.added + i]
           queued == [music EXCEPT !.queue = @ \o tracks,
                                   !.added = @ + PlaylistLen,
                                   !.connected = TRUE,
                                   !.stop_pc = "idle"]
       IN music' =
            IF music.current_track = None
              THEN [queued EXCEPT !.current_track = tracks[1],
                                  !.playing = tracks[1],
                                  !.handed = Append(@, tracks[1])]
              ELSE queued
    /\ UNCHANGED exceptMusic

\* The player reaches the end of the track it plays and sends the
\* track-end event.
TrackFinished ==
    /\ music.playing # None
    /\ music' = [music EXCEPT !.playing = None, !.events = @ + 1]
    /\ UNCHANGED exceptMusic

\* on_track_end: play_next(guild_id), autoplay off.
play_next(state) ==
    IF state.queue # <<>>
      THEN [state EXCEPT !.queue = Tail(@),
                         !.current_track = Head(state.queue),
                         !.playing = Head(state.queue),
                         !.handed = Append(@, Head(state.queue))]
      ELSE [state EXCEPT !.current_track = None]

OnTrackEnd ==
    /\ music.events > 0
    /\ music' = play_next([music EXCEPT !.events = @ - 1])
    /\ UNCHANGED exceptMusic

\* stop, up to await player.stop(): the player stops the track it plays and
\* sends the track-end event.
StopCall ==
    /\ music.connected
    /\ music.stop_pc # "awaiting"
    /\ music' =
         IF music.playing # None
           THEN [music EXCEPT !.stop_pc = "awaiting", !.playing = None,
                              !.events = @ + 1]
           ELSE [music EXCEPT !.stop_pc = "awaiting"]
    /\ UNCHANGED exceptMusic

\* stop, after player.stop() has returned.
StopReturn ==
    /\ music.stop_pc = "awaiting"
    /\ music' = [music EXCEPT !.queue = <<>>, !.current_track = None,
                              !.stop_pc = "done"]
    /\ UNCHANGED exceptMusic

\* play commands and track ends only.
NextPlayback == Play \/ PlayPlaylist \/ TrackFinished \/ OnTrackEnd

SpecPlayback == Init /\ [][NextPlayback]_vars

NextMusic == NextPlayback \/ StopCall \/ StopReturn

SpecMusic == Init /\ [][NextMusic]_vars

----------------------------------------------------------------------------
(* The starboard (cogs/starboard.py) for one original message of one       *)
(* guild.  stars is the set of users whose star reaction Discord holds,    *)
(* posts the messages present in the starboard channel, row the message's  *)
(* row of starred_messages (NoRow if absent; starboard_message_id 0 is     *)
(* NULL).  Every reaction event is handled by a task of the event loop.    *)

\* sum(1 for reaction in message.reactions if str(reaction.emoji) == "⭐"):
\* message.reactions holds one Reaction per emoji.
StarCount(stars) == IF stars = {} THEN 0 ELSE 1

\* update_star_count: the upsert keeps the starboard_message_id of a row.
update_star_count(row, count) ==
    IF row = NoRow THEN [star_count |-> count, starboard_message_id |-> 0]
    ELSE [row EXCEPT !.star_count = count]

\* get_starboard_message_id: None (0) without a row.
get_starboard_message_id(row) ==
    IF row = NoRow THEN 0 ELSE row.starboard_message_id

\* set_starboard_message_id: an UPDATE, it changes no table without a row.
set_starboard_message_id(row, id) ==
    IF row = NoRow THEN NoRow ELSE [row EXCEPT !.starboard_message_id = id]

\* The handler task h goes on to pc, holding the starboard message id post.
Goto(state, h, pc, post) ==
    [state EXCEPT !.handlers[h] = [pc |-> pc, post |-> post]]

\* create_starboard_embed reads star_count with cursor.fetchone()[0]: the
\* TypeError of a missing row ends the handler.
EmbedOrCrash(state, h, pc, post) ==
    IF state.row = NoRow THEN Goto(state, h, "idle", 0)
    ELSE Goto(state, h, pc, post)

\* /starboard channel
StarboardChannel ==
    /\ ~star.channel
    /\ star' = [star EXCEPT !.channel = TRUE]
    /\ UNCHANGED exceptStar

\* /starboard threshold stars
StarboardThreshold ==
    /\ \E stars \in Thresholds :
         /\ stars # star.threshold
         /\ star' = [star EXCEPT !.threshold = stars]
    /\ UNCHANGED exceptStar

\* A user adds or removes the star reaction: on_raw_reaction_add or
\* on_raw_reaction_remove, process_star_reaction up to
\* await channel.fetch_message(...).
Reaction(h) ==
    /\ star.handlers[h].pc = "idle"
    /\ star.events < MaxEvents
    /\ \E u \in Members :
         LET stars == IF u \in star.stars THEN star.stars \ {u}
                      ELSE star.stars \cup {u}
             started == [star EXCEPT !.stars = stars, !.events = @ + 1]
         IN star' = IF star.channel
                      THEN [started EXCEPT !.handlers[h].pc = "fetch"]
                      ELSE started
    /\ UNCHANGED exceptStar

\* fetch_message returns: the count is stored, then add_to_starboard or
\* remove_from_starboard runs up to its first await.
Fetched(h) ==
    /\ star.handlers[h].pc = "fetch"
    /\ LET count == StarCount(star.stars)
           row == update_star_count(star.row, count)
           id == get_starboard_message_id(row)
           stored == [star EXCEPT !.row = row]
       IN star' =
            IF count >= star.threshold
              THEN IF id # 0 THEN Goto(stored, h, "fetch_post", id)
                   ELSE Goto(stored, h, "send", 0)
              ELSE IF id # 0 THEN Goto(stored, h, "fetch_old", id)
                   ELSE Goto(stored, h, "idle", 0)
    /\ UNCHANGED exceptStar

\* add_to_starboard: starboard_channel.fetch_message returns the post, or
\* raises NotFound and a new post is sent.
PostFetched(h) ==
    LET post == star.handlers[h].post IN
    /\ star.handlers[h].pc = "fetch_post"
    /\ star' = IF post \in star.posts THEN EmbedOrCrash(star, h, "edit", post)
               ELSE EmbedOrCrash(star, h, "send", 0)
    /\ UNCHANGED exceptStar

\* add_to_starboard: starboard_message.edit returns, or raises NotFound and
\* a new post is sent.
Edited(h) ==
    LET post == star.handlers[h].post IN
    /\ star.handlers[h].pc = "edit"
    /\ star' = IF post \in star.posts THEN Goto(star, h, "idle", 0)
               ELSE EmbedOrCrash(star, h, "send", 0)
    /\ UNCHANGED exceptStar

\* add_to_starboard: starboard_channel.send returns the new post, and its
\* id is stored.
Sent(h) ==
    LET id == star.next_post IN
    /\ star.handlers[h].pc = "send"
    /\ star' = Goto([star EXCEPT
                       !.posts = @ \cup {id},
                       !.next_post = id + 1,
                       !.row = set_starboard_message_id(@, id)],
                    h, "idle", 0)
    /\ UNCHANGED exceptStar

\* remove_from_starboard: starboard_channel.fetch_message returns the post,
\* or raises NotFound.
OldFetched(h) ==
    LET post == star.handlers[h].post IN
    /\ star.handlers[h].pc = "fetch_old"
    /\ star' = IF post \in star.posts THEN Goto(star, h, "delete", post)
               ELSE Goto(star, h, "idle", 0)
    /\ UNCHANGED exceptStar

\* remove_from_starboard: starboard_message.delete returns and the row is
\* removed, or delete raises NotFound.
Deleted(h) ==
    LET post == star.handlers[h].post IN
    /\ star.handlers[h].pc = "delete"
    /\ star' = IF post \in star.posts
                 THEN Goto([star EXCEPT !.posts = @ \ {post},
                                        !.row = NoRow],
                           h, "idle", 0)
               ELSE Goto(star, h, "idle", 0)
    /\ UNCHANGED exceptStar

NextStarboard ==
    \/ StarboardChannel
    \/ StarboardThreshold
    \/ \E h \in Handlers :
         \/ Reaction(h)
         \/ Fetched(h)
         \/ PostFetched(h)
         \/ Edited(h)
         \/ Sent(h)
         \/ OldFetched(h)
         \/ Deleted(h)

SpecStarboard == Init /\ [][NextStarboard]_vars

----------------------------------------------------------------------------
(* The custom prefixes (cogs/prefix.py).  rows is the guild_prefixes table *)
(* (PRIMARY KEY (guild_id, prefix)), cache the prefix_cache dict, a        *)
(* function from the guild ids it has as keys to sets of prefixes.  No     *)
(* function awaits between its statements on the table and on the cache,   *)
(* so every command is one step.  A statement that raises sqlite3.Error    *)
(* (fail) leaves the with block through its rollback.                      *)

GuildRow(guild_id, p) == [guild_id |-> guild_id, prefix |-> p]

\* The prefixes the table stores for a guild.
StoredPrefixes(rows, guild_id) ==
    {r.prefix : r \in {x \in rows : x.guild_id = guild_id}}

\* The prefixes the cache holds for a guild.
CachedPrefixes(cache, guild_id) ==
    IF guild_id \in DOMAIN cache THEN cache[guild_id] ELSE {}

\* get_prefix(bot, message) for a message of a guild, as a set.
get_prefix(cache, guild_id) ==
    {default_prefix} \cup CachedPrefixes(cache, guild_id)

\* len(get_all_prefixes(guild_id)): the default prefix and the cached ones.
LenAllPrefixes(cache, guild_id) ==
    1 + Cardinality(CachedPrefixes(cache, guild_id))

\* if guild_id not in self.prefix_cache: self.prefix_cache[guild_id] = set()
\* self.prefix_cache[guild_id].add(prefix)
CacheAdd(cache, guild_id, p) ==
    [g \in DOMAIN cache \cup {guild_id} |->
       IF g = guild_id THEN CachedPrefixes(cache, g) \cup {p} ELSE cache[g]]

\* if guild_id in self.prefix_cache and prefix in self.prefix_cache[guild_id]:
\*     self.prefix_cache[guild_id].remove(prefix)
CacheRemove(cache, guild_id, p) ==
    [g \in DOMAIN cache |->
       IF g = guild_id THEN cache[g] \ {p} ELSE cache[g]]

\* The cache is updated before the row is committed.
add_prefix_cache_first(P, guild_id, p, fail) ==
    IF GuildRow(guild_id, p) \in P.rows
      THEN [rows |-> P.rows, cache |-> P.cache, ret |-> FALSE]
    ELSE IF fail
      THEN [rows |-> P.rows, cache |-> CacheAdd(P.cache, guild_id, p),
            ret |-> FALSE]
    ELSE [rows |-> P.rows \cup {GuildRow(guild_id, p)},
          cache |-> CacheAdd(P.cache, guild_id, p), ret |-> TRUE]

add_prefix_to_db(P, guild_id, p, fail) ==
    IF fail
      THEN [rows |-> P.rows, cache |-> P.cache, ret |-> FALSE]
    ELSE IF GuildRow(guild_id, p) \in P.rows
      THEN [rows |-> P.rows, cache |-> P.cache, ret |-> FALSE]
    ELSE [rows |-> P.rows \cup {GuildRow(guild_id, p)},
          cache |-> CacheAdd(P.cache, guild_id, p), ret |-> TRUE]

remove_prefix_from_db(P, guild_id, p, fail) ==
    IF fail
      THEN [rows |-> P.rows, cache |-> P.cache, ret |-> FALSE]
    ELSE IF GuildRow(guild_id, p) \in P.rows
      THEN [rows |-> P.rows \ {GuildRow(guild_id, p)},
            cache |-> CacheRemove(P.cache, guild_id, p), ret |-> TRUE]
    ELSE [rows |-> P.rows, cache |-> P.cache, ret |-> FALSE]

\* The answer of a prefix command.
PrefixReply(op, guild_id, status) ==
    [op |-> op, guild |-> guild_id, status |-> status]

addprefix(P, guild_id, p, fail) ==
    IF p = ""
      THEN [P EXCEPT !.reply = PrefixReply("addprefix", guild_id, "Empty")]
    ELSE IF Len(p) > MaxPrefixLen
      THEN [P EXCEPT !.reply = PrefixReply("addprefix", guild_id, "TooLong")]
    ELSE IF LenAllPrefixes(P.cache, guild_id) >= MaxPrefixes
      THEN [P EXCEPT !.reply = PrefixReply("addprefix", guild_id,
                                           "LimitReached")]
    ELSE LET r == add_prefix_to_db(P, guild_id, p, fail) IN
         [rows |-> r.rows, cache |-> r.cache,
          reply |-> PrefixReply("addprefix", guild_id,
                                IF r.ret THEN "Added" ELSE "AlreadyExists")]

deleteprefix(P, guild_id, p, fail) ==
    IF p = default_prefix
      THEN [P EXCEPT !.reply = PrefixReply("deleteprefix", guild_id,
                                           "CannotRemoveDefault")]
    ELSE LET r == remove_prefix_from_db(P, guild_id, p, fail) IN
         [rows |-> r.rows, cache |-> r.cache,
          reply |-> PrefixReply("deleteprefix", guild_id,
                                IF r.ret THEN "Removed" ELSE "NotFound")]

clearprefixes(P, guild_id, fail) ==
    IF fail
      THEN [P EXCEPT !.reply = PrefixReply("clearprefixes", guild_id, "Error")]
    ELSE [rows |-> {r \in P.rows : r.guild_id # guild_id},
          cache |-> [g \in DOMAIN P.cache |->
                       IF g = guild_id THEN {} ELSE P.cache[g]],
          reply |-> PrefixReply("clearprefixes", guild_id, "Cleared")]

on_guild_remove(P, guild_id, fail) ==
    IF fail
      THEN [P EXCEPT !.reply = PrefixReply("on_guild_remove", guild_id,
                                           "Error")]
    ELSE [rows |-> {r \in P.rows : r.guild_id # guild_id},
          cache |-> [g \in DOMAIN P.cache \ {guild_id} |-> P.cache[g]],
          reply |-> PrefixReply("on_guild_remove", guild_id, "Removed")]

AddPrefix ==
    /\ \E guild_id \in Guilds, fail \in BOOLEAN :
         \E p \in PrefixArgs(guild_id) :
           prefix' = addprefix(prefix, guild_id, p, fail)
    /\ UNCHANGED exceptPrefix

DeletePrefix ==
    /\ \E guild_id \in Guilds, fail \in BOOLEAN :
         \E p \in PrefixArgs(guild_id) :
           prefix' = deleteprefix(prefix, guild_id, p, fail)
    /\ UNCHANGED exceptPrefix

ClearPrefixes ==
    /\ \E guild_id \in Guilds, fail \in BOOLEAN :
         prefix' = clearprefixes(prefix, guild_id, fail)
    /\ UNCHANGED exceptPrefix

OnGuildRemove ==
    /\ \E guild_id \in Guilds, fail \in BOOLEAN :
         prefix' = on_guild_remove(prefix, guild_id, fail)
    /\ UNCHANGED exceptPrefix

NextPrefix == AddPrefix \/ DeletePrefix \/ ClearPrefixes \/ OnGuildRemove

SpecPrefix == Init /\ [][NextPrefix]_vars

----------------------------------------------------------------------------
(* Properties.                                                             *)

Economy == db[EconomyDb]

Payments == db[PaymentDb]

RECURSIVE SumAmounts(_, _)
\* The sum of the amounts of the rows of user_id in a transaction table.
SumAmounts(rows, user_id) ==
    IF rows = <<>> THEN 0
    ELSE (IF Head(rows).user_id = user_id THEN Head(rows).amount ELSE 0)
         + SumAmounts(Tail(rows), user_id)

\* The balances and the transaction log of L and M are the same, a missing
\* account counting as the account its first reference creates.
SameMoney(L, M) ==
    /\ L.transactions = M.transactions
    /\ \A u \in UserIds : WalletOf(L, u) = WalletOf(M, u) /\ BankOf(L, u) = BankOf(M, u)

\* The step is a call of the library function or command op.
Called(op) == steps' = steps + 1 /\ reply'.op = op

\* C1: every account's wallet balance and bank balance are >= 0 in every
\* reachable state.
C1_BalancesNonNegative ==
    \A p \in DbPaths : \A u \in DOMAIN db[p].users :
        db[p].users[u].balance >= 0 /\ db[p].users[u].bank_balance >= 0

\* C4: for every user, the amounts of the user's transaction rows sum to
\* the wallet balance minus the starting balance.
C4_LedgerReconciles ==
    \A p \in DbPaths : \A u \in DOMAIN db[p].users :
        SumAmounts(db[p].transactions, u) = db[p].users[u].balance - starting_balance

\* C5: update_balance with amount < 0 and |amount| above the wallet balance
\* fails with insufficient funds and leaves wallet, bank and the
\* transaction log as they were.
C5_FailedDebitChangesNothing ==
    [][ (/\ Called("update_balance")
         /\ reply'.amount < 0
         /\ -reply'.amount > WalletOf(Economy, reply'.user))
        => (/\ reply'.status = "InsufficientFunds"
            /\ SameMoney(Economy, Economy')
            /\ Economy'.shop = Economy.shop) ]_vars

\* C5 witness: a debit has just been refused although earlier debits went
\* through.
C5_Witness ==
    /\ reply.op = "update_balance"
    /\ reply.status = "InsufficientFunds"
    /\ reply.amount < 0
    /\ Len(Economy.transactions) > 0
    /\ WalletOf(Economy, reply.user) < -reply.amount

\* C10: deposit and withdraw move the amount between wallet and bank in one
\* step or change nothing; wallet + bank is kept; a call whose source lacks
\* the amount fails with insufficient funds and changes neither balance.
C10_MoveIsAllOrNothing ==
    [][ (Called("deposit") \/ Called("withdraw")) =>
        LET u == reply'.user
            sign == IF reply'.op = "deposit" THEN 1 ELSE -1
            source == IF reply'.op = "deposit" THEN WalletOf(Economy, u)
                      ELSE BankOf(Economy, u)
            wallet0 == WalletOf(Economy, u)
            bank0 == BankOf(Economy, u)
            wallet1 == WalletOf(Economy', u)
            bank1 == BankOf(Economy', u)
        IN  /\ wallet1 + bank1 = wallet0 + bank0
            /\ \/ wallet1 = wallet0 /\ bank1 = bank0
               \/ /\ reply'.status = "ok"
                  /\ wallet1 = wallet0 - sign * reply'.amount
                  /\ bank1 = bank0 + sign * reply'.amount
            /\ reply'.status # "ok" => wallet1 = wallet0 /\ bank1 = bank0
            /\ source < reply'.amount =>
                  /\ reply'.status = "InsufficientFunds"
                  /\ wallet1 = wallet0 /\ bank1 = bank0
            /\ \A v \in UserIds \ {u} :
                  WalletOf(Economy', v) = WalletOf(Economy, v)
                  /\ BankOf(Economy', v) = BankOf(Economy, v) ]_vars

\* C10 witness: a deposit has just been refused for lack of funds after an
\* earlier deposit moved money into the bank.
C10_Witness ==
    /\ reply.op = "deposit"
    /\ reply.status = "InsufficientFunds"
    /\ BankOf(Economy, reply.user) > 0
    /\ WalletOf(Economy, reply.user) < reply.amount


\* The amount text a pay step was called with.
Typed(text) == CHOOSE a \in AmountTexts : a.text = text

\* C3: whenever a transfer reports failure, the sender's wallet equals its
\* pre-transfer value and the recipient's balance is unchanged (a credit
\* that fails after the debit is compensated).
C3_FailedTransferRestoresSender ==
    [][ (Called("pay") /\ reply'.status # "Success") =>
        /\ WalletOf(Payments', reply'.user) = WalletOf(Payments, reply'.user)
        /\ WalletOf(Payments', reply'.peer) = WalletOf(Payments, reply'.peer) ]_vars

\* C7: a transfer whose sender holds less than the amount fails with
\* insufficient funds and changes no balance of either side nor the
\* transaction log.
C7_PoorSenderChangesNothing ==
    [][ (/\ Called("pay")
         /\ ~Typed(reply'.item).malformed
         /\ WalletOf(Payments, reply'.user) < reply'.amount)
        => (/\ reply'.status = "InsufficientFunds"
            /\ SameMoney(Payments, Payments')) ]_vars

\* C7 witness: a transfer has just been refused for lack of funds, after an
\* earlier transfer lowered the sender's wallet below the amount.
C7_Witness ==
    /\ reply.op = "pay"
    /\ reply.status = "InsufficientFunds"
    /\ reply.user # reply.peer
    /\ Len(Payments.transactions) > 0
    /\ WalletOf(Payments, reply.user) < starting_balance
    /\ WalletOf(Payments, reply.user) < reply.amount

\* C8: a transfer to oneself is always rejected as a self-transfer,
\* whatever the balance, before any mutation: no account row is created,
\* no balance changes, no transaction row is appended.
C8_SelfTransferRejectedFirst ==
    [][ (/\ Called("pay")
         /\ reply'.user = reply'.peer
         /\ ~Typed(reply'.item).malformed
         /\ reply'.amount > 0)
        => (reply'.status = "SelfPay" /\ db' = db) ]_vars

\* C9: a transfer with amount <= 0 is rejected before any mutation: no
\* account is created, no balance changes, no transaction row is appended.
C9_NonPositiveRejectedFirst ==
    [][ (/\ Called("pay")
         /\ ~Typed(reply'.item).malformed
         /\ reply'.amount <= 0)
        => (reply'.status = "AmountNotPositive" /\ db' = db) ]_vars

\* C9 witness: a transfer of an amount that parses to 0 has just been
\* rejected, and the sender still has no account row.
C9_Witness ==
    /\ reply.op = "pay"
    /\ reply.status = "AmountNotPositive"
    /\ reply.amount = 0
    /\ ~HasUser(Payments, reply.user)

\* The two finished calls of update_balance, if both debited 60 from the
\* same account while it held 100.
TwoDebitsOf60(a, b) ==
    /\ a # b
    /\ calls[a].pc = "idle" /\ calls[b].pc = "idle"
    /\ calls[a].status \in {"ok", "InsufficientFunds"}
    /\ calls[b].status \in {"ok", "InsufficientFunds"}
    /\ calls[a].user = calls[b].user
    /\ calls[a].amount = -60 /\ calls[b].amount = -60
    /\ calls[a].at_call = 100 /\ calls[b].at_call = 100

\* C2: two concurrent debits of 60 against a wallet of 100 end with exactly
\* one success and one insufficient-funds failure and a wallet of 40, and
\* the wallet is never negative.
C2_NoDoubleSpend ==
    /\ \A u \in DOMAIN Committed.users : Committed.users[u].balance >= 0
    /\ \A a, b \in Conns :
         TwoDebitsOf60(a, b) =>
           /\ {calls[a].status, calls[b].status} = {"ok", "InsufficientFunds"}
           /\ WalletOf(Committed, calls[a].user) = 40

\* C6: a successful update_balance writes the then-current wallet plus
\* amount and appends exactly one row for the user and amount, both in one
\* step; a call that does not commit changes neither.
C6_UpdateIsOneAtomicStep ==
    [][ \A c \in Conns :
          /\ (calls[c].pc = "commit" /\ calls'[c].pc = "return") =>
               /\ WalletOf(Committed', calls[c].user)
                    = WalletOf(Committed, calls[c].user) + calls[c].amount
               /\ Committed'.transactions = Append(Committed.transactions,
                    [user_id |-> calls[c].user, amount |-> calls[c].amount,
                     type |-> "generic"])
          /\ (calls[c].pc \in {"update", "insert", "commit"}
              /\ calls'[c].status = "StorageError") => Committed' = Committed
          /\ (Committed'.transactions # Committed.transactions
              \/ \E u \in DOMAIN Committed.users :
                    WalletOf(Committed', u) # WalletOf(Committed, u))
             => \E d \in Conns : calls[d].pc = "commit" /\ calls'[d].pc = "return"
      ]_vars

----------------------------------------------------------------------------
(* Claims C11 to C20.                                                      *)

\* C11: a deposit or withdraw call with amount <= 0, made through the
\* library or through the commands, changes neither the wallet nor the bank
\* balance of the user.
C11_NonPositiveMoveChangesNothing ==
    [][ (/\ steps' = steps + 1
         /\ reply'.op \in {"deposit", "withdraw",
                           "deposit_command", "withdraw_command"}
         /\ reply'.amount <= 0)
        => (/\ WalletOf(Economy', reply'.user) = WalletOf(Economy, reply'.user)
            /\ BankOf(Economy', reply'.user) = BankOf(Economy, reply'.user)) ]_vars

\* The commands alone do reject amount <= 0: this holds under SpecBank.
CommandsRejectNonPositive ==
    [][ (/\ steps' = steps + 1
         /\ reply'.op \in {"deposit_command", "withdraw_command"}
         /\ reply'.amount <= 0)
        => (/\ reply'.status \in {"AmountNotPositive", "InvalidLiteral"}
            /\ WalletOf(Economy', reply'.user) = WalletOf(Economy, reply'.user)
            /\ BankOf(Economy', reply'.user) = BankOf(Economy, reply'.user)) ]_vars

\* C12: add_user, from one caller or from callers on connections of their
\* own, never raises, leaves the account row of user_id in place, creates it
\* with wallet = starting balance and bank = 0, and never changes a row that
\* exists already (nor any other row, the transaction log or the shop).
C12_AddUserIsIdempotent ==
    [][ \A c \in Conns :
          (calls[c].pc \in {"au_insert", "au_commit"} /\ calls'[c] # calls[c])
          => LET u == calls[c].user
             IN  /\ HasUser(Committed, u) => Committed' = Committed
                 /\ \/ Committed' = Committed
                    \/ /\ ~HasUser(Committed, u)
                       /\ DOMAIN Committed'.users = DOMAIN Committed.users \cup {u}
                       /\ Committed'.users[u].balance = starting_balance
                       /\ Committed'.users[u].bank_balance = 0
                       /\ \A v \in DOMAIN Committed.users :
                            Committed'.users[v] = Committed.users[v]
                       /\ Committed'.transactions = Committed.transactions
                       /\ Committed'.shop = Committed.shop
                 /\ calls'[c].pc = "idle"
                      => /\ calls'[c].status \in {"True", "False"}
                         /\ HasUser(Committed', u) ]_vars

\* add_user has returned False for an account whose wallet is no longer the
\* starting balance, while the other connection is inside a call.
C12_Witness ==
    \E c \in Conns, d \in Conns :
      /\ c # d
      /\ calls[c].pc = "idle"
      /\ calls[c].status = "False"
      /\ HasUser(Committed, calls[c].user)
      /\ Committed.users[calls[c].user].balance # starting_balance
      /\ calls[d].pc # "idle"

\* C13: get_balance changes no existing account (wallet, bank, streak,
\* last claim, inventory), nor the transaction log or the shop; its only
\* effect is the creation of the missing account of user_id with wallet =
\* starting balance and bank = 0; the value it returns is the stored wallet
\* and bank of user_id after the call.
C13_GetBalanceReadsOnly ==
    [][ Called("get_balance")
        => LET u == reply'.user
           IN  /\ HasUser(Economy, u) => Economy' = Economy
               /\ ~HasUser(Economy, u)
                    => /\ DOMAIN Economy'.users = DOMAIN Economy.users \cup {u}
                       /\ \A v \in DOMAIN Economy.users :
                            Economy'.users[v] = Economy.users[v]
                       /\ Economy'.users[u].balance = starting_balance
                       /\ Economy'.users[u].bank_balance = 0
                       /\ Economy'.transactions = Economy.transactions
                       /\ Economy'.shop = Economy.shop
               /\ Payments' = Payments
               /\ reply'.ret.wallet = Economy'.users[u].balance
               /\ reply'.ret.bank = Economy'.users[u].bank_balance ]_vars

\* get_balance has answered for an account that holds money in the bank.
C13_Witness ==
    /\ reply.op = "get_balance"
    /\ reply.ret.bank > 0
    /\ reply.ret.wallet # starting_balance

\* The last_daily column of user_id, NULL without a row.
LastDailyOf(L, user_id) ==
    IF HasUser(L, user_id) THEN L.users[user_id].last_daily ELSE NULL

\* The daily_streak column of user_id, 0 without a row.
StreakOf(L, user_id) ==
    IF HasUser(L, user_id) THEN L.users[user_id].daily_streak ELSE 0

\* Whole hours from the stored last claim of user_id to the time t.
HoursSince(L, user_id, t) == t.h - LastDailyOf(L, user_id)[1].h

\* C14: over the claim_daily calls of one user, a claim with no prior claim
\* succeeds with streak 1; a claim less than 24 hours after the last
\* successful claim is answered TooSoon; one made 24 to 48 hours after it
\* succeeds with the previous streak + 1 and bonus = streak bonus x
\* (streak - 1); one made more than 48 hours after it succeeds with streak 1
\* (claims at T, T+20h, T+30h, T+80h: 1, TooSoon, 2, 1).
C14_StreakEvolves ==
    [][ (Called("claim_daily") /\ reply'.status # "StorageError")
        => LET u == reply'.user
               hours == HoursSince(Economy, u, now')
           IN  IF LastDailyOf(Economy, u) = NULL
               THEN reply'.status = "ok" /\ reply'.ret.streak = 1
               ELSE IF hours < 24
               THEN reply'.status = "ValueError:TooSoon"
               ELSE IF hours <= 48
               THEN /\ reply'.status = "ok"
                    /\ reply'.ret.streak = StreakOf(Economy, u) + 1
                    /\ reply'.ret.streak_bonus =
                         daily_streak_bonus * StreakOf(Economy, u)
               ELSE reply'.status = "ok" /\ reply'.ret.streak = 1 ]_vars

\* C15: claim_daily less than 24 hours after the last successful claim of
\* the user fails with TooSoon, reports the hours remaining, and leaves
\* wallet, bank, last_daily, daily_streak and the transaction log unchanged.
C15_TooSoonChangesNothing ==
    [][ (/\ Called("claim_daily")
         /\ LastDailyOf(Economy, reply'.user) # NULL
         /\ HoursSince(Economy, reply'.user, now') < 24)
        => (/\ reply'.status = "ValueError:TooSoon"
            /\ reply'.ret.hours = 24 - HoursSince(Economy, reply'.user, now')
            /\ Economy' = Economy) ]_vars

\* C16: a successful claim_daily credits the wallet by daily_reward +
\* daily_streak_bonus * (s - 1), s being the streak it stores, and returns
\* that amount with streak = s and streak_bonus = daily_streak_bonus *
\* (s - 1); the first claim has bonus 0.
C16_RewardFollowsStreak ==
    [][ (Called("claim_daily") /\ reply'.status = "ok")
        => LET u == reply'.user
               s == StreakOf(Economy', u)
               bonus == daily_streak_bonus * (s - 1)
           IN  /\ s >= 1
               /\ WalletOf(Economy', u) = WalletOf(Economy, u) + daily_reward + bonus
               /\ reply'.ret = [amount |-> daily_reward + bonus, streak |-> s,
                                streak_bonus |-> bonus]
               /\ LastDailyOf(Economy, u) = NULL => reply'.ret.streak_bonus = 0 ]_vars

\* A second claim in a row has succeeded: streak 2, reward 150.
C16_Witness ==
    /\ reply.op = "claim_daily"
    /\ reply.status = "ok"
    /\ reply.ret.streak = 2
    /\ reply.ret.amount = daily_reward + daily_streak_bonus

\* C17: a successful claim_daily credits the wallet, sets last_daily to the
\* claim time, updates daily_streak and appends exactly one transaction row
\* for the reward; a claim that does not succeed applies none of these.
C17_ClaimIsOneUnit ==
    [][ Called("claim_daily")
        => LET u == reply'.user
           IN  IF reply'.status = "ok"
               THEN /\ WalletOf(Economy', u) = WalletOf(Economy, u) + reply'.ret.amount
                    /\ LastDailyOf(Economy', u) = <<now'>>
                    /\ StreakOf(Economy', u) = reply'.ret.streak
                    /\ Len(Economy'.transactions) = Len(Economy.transactions) + 1
                    /\ LET row == Economy'.transactions[Len(Economy'.transactions)]
                       IN  row.user_id = u /\ row.amount = reply'.ret.amount
               ELSE /\ WalletOf(Economy', u) = WalletOf(Economy, u)
                    /\ LastDailyOf(Economy', u) = LastDailyOf(Economy, u)
                    /\ StreakOf(Economy', u) = StreakOf(Economy, u)
                    /\ Economy'.transactions = Economy.transactions ]_vars

\* The shop row buy_item finds for item_name: present and active.
Listed(L, item_name) ==
    item_name \in DOMAIN L.shop /\ L.shop[item_name].is_active

\* Shop, inventory of user_id, balances and transaction log are the same.
NothingBought(L, M, user_id) ==
    /\ L.shop = M.shop
    /\ get_inventory(L, user_id) = get_inventory(M, user_id)
    /\ SameMoney(L, M)

\* C18: buy_item fails with "Item not found" when the item is missing or
\* inactive, with "Item out of stock" when its stock is 0 and with
\* "Insufficient funds" when the wallet is below the price, and then shop
\* stock, the buyer's inventory and balances and the transaction log are
\* unchanged.
C18_RefusedPurchaseChangesNothing ==
    [][ Called("buy_item")
        => LET u == reply'.user
               name == reply'.item
               sold_out == Economy.shop[name].stock = 0
               poor == WalletOf(Economy, u) < Economy.shop[name].price
           IN  /\ ~Listed(Economy, name)
                    => /\ reply'.status = "ValueError:Item not found"
                       /\ NothingBought(Economy, Economy', u)
               /\ (Listed(Economy, name) /\ (sold_out \/ poor))
                    => /\ reply'.status \in
                            {e \in {"ValueError:Item out of stock"} : sold_out}
                            \cup {e \in {"ValueError:Insufficient funds"} : poor}
                       /\ NothingBought(Economy, Economy', u) ]_vars

\* buy_item has answered "out of stock" for an item its buyer owns.
C18_Witness ==
    /\ reply.op = "buy_item"
    /\ reply.status = "ValueError:Item out of stock"
    /\ reply.item \in DOMAIN get_inventory(Economy, reply.user)

\* C19: a successful buy_item decrements the stock of the item by 1 if and
\* only if it is limited (stock -1 stays -1), raises the inventory quantity
\* of the item by 1, debits the wallet by the price, appends one transaction
\* row of type purchase with amount -price, and returns the item name, the
\* price and the role_reward.
C19_PurchaseEffects ==
    [][ (Called("buy_item") /\ reply'.status = "ok")
        => LET u == reply'.user
               name == reply'.item
               item == Economy.shop[name]
               had == get_inventory(Economy, u)
               has == get_inventory(Economy', u)
           IN  /\ Listed(Economy, name)
               /\ Economy'.shop = [Economy.shop EXCEPT ![name].stock =
                                      IF item.stock = -1 THEN -1 ELSE item.stock - 1]
               /\ DOMAIN has = DOMAIN had \cup {name}
               /\ has[name] = (IF name \in DOMAIN had THEN had[name] ELSE 0) + 1
               /\ \A i \in DOMAIN had \ {name} : has[i] = had[i]
               /\ WalletOf(Economy', u) = WalletOf(Economy, u) - item.price
               /\ BankOf(Economy', u) = BankOf(Economy, u)
               /\ Economy'.transactions =
                    Append(Economy.transactions,
                           [user_id |-> u, amount |-> -item.price, type |-> "purchase"])
               /\ \A v \in DOMAIN Economy.users \ {u} :
                    Economy'.users[v] = Economy.users[v]
               /\ reply'.ret = [item |-> name, price |-> item.price,
                                role_reward |-> item.role_reward] ]_vars

\* The last Sword has been bought: stock 0, one in the inventory, wallet
\* debited by its price.
C19_Witness ==
    /\ reply.op = "buy_item"
    /\ reply.status = "ok"
    /\ reply.item = "Sword"
    /\ Economy.shop["Sword"].stock = 0
    /\ get_inventory(Economy, reply.user)["Sword"] = 1
    /\ reply.ret.price = 100

\* C20: stock decrement, inventory increment, wallet debit and purchase row
\* are one unit: a buy_item that fails leaves none of them applied.
C20_PurchaseIsOneUnit ==
    [][ (Called("buy_item") /\ reply'.status # "ok")
        => NothingBought(Economy, Economy', reply'.user) ]_vars

----------------------------------------------------------------------------
(* Claims C21 to C30.                                                      *)

\* The stock an item of the catalog is created with.
CreatedStock(item_name) ==
    (CHOOSE item \in ShopCatalog : item.name = item_name).stock

\* The purchase rows of the transaction log that carry the price of
\* item_name (the prices of the catalog differ).
RECURSIVE PurchasesOf(_, _)
PurchasesOf(L, item_name) ==
    LET rows == L.transactions
        price == (CHOOSE item \in ShopCatalog : item.name = item_name).price
    IN  IF rows = <<>> THEN 0
        ELSE (IF rows[Len(rows)].type = "purchase" /\ rows[Len(rows)].amount = -price
              THEN 1 ELSE 0)
             + PurchasesOf([L EXCEPT !.transactions = SubSeq(rows, 1, Len(rows) - 1)],
                           item_name)

C23_PagesCoverTheOrdering ==
    [][ (/\ Called("leaderboard_command")
         /\ reply'.amount >= 1
         /\ (reply'.amount - 1) * PageSize < Cardinality(DOMAIN Economy.users)
              \/ reply'.amount = 1)
        => LET full == get_leaderboard(Economy, -1)
               offset == (reply'.amount - 1) * PageSize
               last == IF offset + PageSize < Len(full)
                       THEN offset + PageSize ELSE Len(full)
           IN  /\ reply'.status = "ok"
               /\ reply'.ret = SubSeq(full, offset + 1, last) ]_vars

\* C24: update_balance on an account whose status is frozen fails with
\* AccountFrozen and changes neither balances nor the transaction log, for
\* credits as well as debits.
C24_FrozenAccountRejectsUpdates ==
    [][ (Called("update_balance") /\ account_status[reply'.user] = "frozen")
        => (/\ reply'.status = "AccountFrozen"
            /\ SameMoney(Economy, Economy')) ]_vars

\* C25: the command handlers work on one ledger: a successful pay of amount
\* a from X to Y reduces by a the wallet of X, and raises by a the wallet of
\* Y, that the balance and leaderboard queries read, and a balance query
\* that follows the pay reports the wallet the pay has left.
C25_OneLedgerForAllCommands ==
    [][ /\ (/\ Called("pay")
            /\ reply'.status = "Success"
            /\ reply'.user # reply'.peer)
           => /\ WalletOf(Economy', reply'.user)
                   = WalletOf(Economy, reply'.user) - reply'.amount
              /\ WalletOf(Economy', reply'.peer)
                   = WalletOf(Economy, reply'.peer) + reply'.amount
        /\ (/\ reply.op = "pay"
            /\ reply.status = "Success"
            /\ Called("get_balance")
            /\ reply'.user \in {reply.user, reply.peer})
           => reply'.ret.wallet = WalletOf(Payments, reply'.user) ]_vars

\* The moderation commands that hold a case ID and have not yet inserted
\* their case row.
BeforeInsert(m) ==
    \/ mod.cmds[m].pc = "dm"
    \/ mod.cmds[m].pc = "act"

\* C26: two moderation commands of a guild that have both called
\* get_next_case_id before either inserted its case row hold distinct case
\* IDs, and every action that took effect (warned, banned, timed out,
\* kicked) is recorded as a case row under the case ID reported for it.
C26_CaseIdsUniqueUnderConcurrency ==
    /\ \A m1, m2 \in Mods :
         (m1 # m2 /\ BeforeInsert(m1) /\ BeforeInsert(m2))
           => mod.cmds[m1].case_id # mod.cmds[m2].case_id
    /\ \A e \in mod.applied :
         /\ e.case_id \in DOMAIN mod.cases
         /\ mod.cases[e.case_id].user_id = e.user
         /\ mod.cases[e.case_id].action = e.action

\* C27: once stop has completed (and until the next play command) the queue
\* is empty, current_track is None and no track is playing, whether
\* on_track_end -> play_next runs before or after stop clears the queue.
C27_StopLeavesNothingPlaying ==
    music.stop_pc = "done"
      => /\ music.queue = <<>>
         /\ music.current_track = None
         /\ music.playing = None

\* The tracks 1..n in the order they were added.
AddedTracks(n) == [i \in 1..n |-> i]

\* C28: with no skip, stop or disconnect, the tracks handed to player.play
\* are the tracks added, each once and in the order added: at any moment
\* the sequence handed is an initial part of the sequence added.
C28_TracksPlayedOnceInOrder ==
    /\ Len(music.handed) <= music.added
    /\ music.handed = AddedTracks(Len(music.handed))

\* C29: an original message has at most one starboard post at any time, for
\* every interleaving of the handlers of its star reaction events, and the
\* starboard_message_id stored for it is the id of the only existing post.
C29_AtMostOneStarboardPost ==
    /\ Cardinality(star.posts) <= 1
    /\ star.posts # {}
         => /\ star.row # NoRow
            /\ star.posts = {star.row.starboard_message_id}

\* C30: after any sequence of addprefix, deleteprefix, clearprefixes and
\* guild removals, failing ones included, for every guild the custom
\* prefixes of prefix_cache are the prefix rows stored for the guild, the
\* guild has at most 9 custom prefixes, and the default prefix is among the
\* prefixes get_prefix returns.
C30_PrefixCacheCoherent ==
    \A guild_id \in Guilds :
      /\ CachedPrefixes(prefix.cache, guild_id)
           = StoredPrefixes(prefix.rows, guild_id)
      /\ Cardinality(StoredPrefixes(prefix.rows, guild_id)) <= 9
      /\ default_prefix \in get_prefix(prefix.cache, guild_id)

\* A guild holds 9 custom prefixes and addprefix has just refused a tenth.
C30_Witness ==
    /\ prefix.reply.op = "addprefix"
    /\ prefix.reply.status = "LimitReached"
    /\ Cardinality(StoredPrefixes(prefix.rows, prefix.reply.guild)) = 9

============================================================================
